---- MODULE Spec2Model ----
(***************************************************************************)
(* A model of EfficientGaussianEmb (embeddings/efficient_gaussian_         *)
(* embedding.py): the sketch dimension calc_m, the partition of a          *)
(* contraction path into D, S and I_S, the Kronecker pass with its         *)
(* exhaustive search over contraction orders, and the tree-embedding pass. *)
(* The tensor network the embedder drives (tensor_network.tensor_network)  *)
(* is modelled from its interface: nodes with ordered edges and a shape,   *)
(* sketch, contract and the two joint sketch-and-contract operations.      *)
(***************************************************************************)
EXTENDS Integers, Sequences, FiniteSets

VARIABLES
    pc,                    \* position of the caller: new, constructed, ... done, error
    emb,                   \* the EfficientGaussianEmb object (NoEmb before __init__)
    x,                     \* the TensorNetwork, mutated in place
    contraction_path,      \* embed's argument: a sequence of <<i, j>>
    edges_to_be_sketched,  \* embed line 46
    m,                     \* the sketch dimension (calc_m's result)
    D, S, I_S,             \* the partition (embed line 49)
    pending,               \* keys of D the loop of line 98 has not visited yet
    current,               \* the key of D the last iteration of line 98 visited
    plan,                  \* minimal_contraction_path of that iteration
    sim,                   \* the size simulation behind that plan
    tree_pos,              \* number of entries of I_S the loop of line 181 has done
    ops                    \* every call issued on x, in order

vars == <<pc, emb, x, contraction_path, edges_to_be_sketched, m, D, S, I_S,
          pending, current, plan, sim, tree_pos, ops>>

----------------------------------------------------------------------------
(* Bounds of the model. *)

MaxNE == 4          \* a one-node network carries 0..MaxNE edges to sketch
MaxScalar == 4      \* m_scalar ranges over -1..MaxScalar
NumNodes == 3       \* nodes of the ring networks
MaxSketchEdges == 2 \* to-be-sketched dangling edges of a ring network (in total)
MaxPathLen == 2     \* entries of a ring network's contraction path
MaxGroup == 3       \* partners of the anchor of a star network

None == -1
NoEmb == [none |-> TRUE]
NoEdge == <<"none", 0, 0>>

Max(a, b) == IF a >= b THEN a ELSE b

RECURSIVE Prod(_)
(* numpy's prod of a shape; the product of no dimension is 1 *)
Prod(s) == IF s = <<>> THEN 1 ELSE Head(s) * Prod(Tail(s))

RECURSIVE SeqCount(_, _)
SeqCount(s, v) ==
    IF s = <<>> THEN 0
    ELSE (IF Head(s) = v THEN 1 ELSE 0) + SeqCount(Tail(s), v)

InSeq(v, s) == \E k \in 1..Len(s) : s[k] = v

----------------------------------------------------------------------------
(* Real numbers.  eps, delta and m_scalar are floats in the program; the   *)
(* model draws them from rationals [num, den] (den > 0).  The natural      *)
(* logarithm is tabulated, scaled by LnScale, for the values of delta the  *)
(* model draws.                                                            *)

Rat(n, d) == [num |-> n, den |-> d]
Positive(q) == q.num > 0
LessThan(p, q) == p.num * q.den < q.num * p.den
LessEq(p, q) == p.num * q.den <= q.num * p.den

LnScale == 1000 * 1000

\* floor(ln(1/delta) * LnScale) for the values of delta with delta > 0
LnTable ==
    << [delta |-> Rat(1, 20), ln |-> 2995732],
       [delta |-> Rat(1, 10), ln |-> 2302585],
       [delta |-> Rat(1, 4),  ln |-> 1386294],
       [delta |-> Rat(1, 2),  ln |-> 693147],
       [delta |-> Rat(3, 4),  ln |-> 287682],
       [delta |-> Rat(9, 10), ln |-> 105360],
       [delta |-> Rat(1, 1),  ln |-> 0],
       [delta |-> Rat(3, 2),  ln |-> -405465] >>

ValidDeltas == { LnTable[k].delta : k \in {k \in 1..Len(LnTable) : LnTable[k].ln > 0} }
Deltas == { LnTable[k].delta : k \in 1..Len(LnTable) } \cup { Rat(0, 1), Rat(-1, 2) }
ValidEpss == { Rat(1, 2), Rat(1, 1), Rat(3, 2), Rat(2, 1), Rat(3, 1) }
Epss == ValidEpss \cup { Rat(0, 1), Rat(-1, 1) }
Scalars == -1..MaxScalar

\* np.log(1 / delta), scaled by LnScale (delta > 0)
NpLogInv(delta) ==
    LnTable[CHOOSE k \in 1..Len(LnTable) : LnTable[k].delta = delta].ln

\* Python's int() of the rational a / b (b > 0): truncation towards zero
IntTrunc(a, b) == IF a >= 0 THEN a \div b ELSE -((-a) \div b)

\* floor of the rational a / b (b > 0)
Floor(a, b) == a \div b

----------------------------------------------------------------------------
(* The tensor network collaborator.  An edge is a triple: <<"d", i, k>>    *)
(* is the k-th dangling edge of node i that requires sketching, <<"in", i, *)
(* j>> joins nodes i and j, <<"free", i, k>> is a dimension of node i that *)
(* leaves the modelled part of the network and is not to be sketched.  A   *)
(* node is its ordered edges and the shape of its tensor (shape[k] is the  *)
(* dimension of edges[k]).  owner[i] is the node that the index i names    *)
(* now: a contraction fuses two nodes into one that both indices name.     *)
(* times_sketched[e] is the number of random projections applied so far to *)
(* the dimension of the edge e.                                            *)

Node(edges, shape) == [edges |-> edges, shape |-> shape]

\* x[i]
NodeAt(net, i) == net.nodes[net.owner[i]]

\* node.tensor.size
TensorSize(node) == Prod(node.shape)

\* node.get_all_dangling(): the node's dangling edges that require sketching
get_all_dangling(net, node) ==
    SelectSeq(node.edges, LAMBDA e : e \in net.to_sketch)

\* x.get_edges_to_sketch()
get_edges_to_sketch(net) == net.to_sketch

\* x.get_node_index(e.node1): the index of the node a dangling edge hangs on
get_node_index(net, e) == e[2]

Positions(node, es) == { k \in 1..Len(node.edges) : node.edges[k] \in es }

RECURSIVE Keep(_, _, _)
\* the subsequence of s at the positions not in drop, from position k on
Keep(s, drop, k) ==
    IF k > Len(s) THEN <<>>
    ELSE (IF k \in drop THEN <<>> ELSE <<s[k]>>) \o Keep(s, drop, k + 1)

Elems(s) == { s[k] : k \in 1..Len(s) }

\* the node two nodes fuse into: the edges they share are summed over, the
\* rest of U's dimensions come first and the rest of V's follow
Fuse(U, V) ==
    LET shared == Elems(U.edges) \cap Elems(V.edges)
        du == Positions(U, shared)
        dv == Positions(V, shared)
    IN  Node(Keep(U.edges, du, 1) \o Keep(V.edges, dv, 1),
             Keep(U.shape, du, 1) \o Keep(V.shape, dv, 1))

\* x.contract(i, j)
contract(net, i, j) ==
    LET ri == net.owner[i]
        rj == net.owner[j]
    IN  IF ri = rj THEN net
        ELSE [net EXCEPT
                !.nodes[ri] = Fuse(net.nodes[ri], net.nodes[rj]),
                !.owner = [k \in DOMAIN net.owner |->
                              IF net.owner[k] = rj THEN ri ELSE net.owner[k]]]

\* a random projection to dimension dim applied to each edge of es, in place
project(net, es, dim) ==
    [net EXCEPT
        !.nodes = [r \in DOMAIN net.nodes |->
            Node(net.nodes[r].edges,
                 [k \in 1..Len(net.nodes[r].shape) |->
                     IF net.nodes[r].edges[k] \in es THEN dim
                     ELSE net.nodes[r].shape[k]])],
        !.times_sketched = [e \in DOMAIN net.times_sketched |->
            IF e \in es THEN net.times_sketched[e] + 1 ELSE net.times_sketched[e]]]

\* x.sketch(edge=e, m=m): the dimension of e is projected to m, in place
sketch(net, e, dim) == project(net, {e}, dim)

\* x.tree_sketch_and_contract(i, j, m) and x.tn_sketch_and_contract_s(i, j, m):
\* the joint sketch-and-fuse of two nodes that both carry to-be-sketched
\* dimensions: those dimensions of the two operands are jointly projected to m
\* and one fused, sketched node takes the place of the operands (the two calls
\* differ only in how the projection is built inside)
sketch_and_contract(net, i, j, dim) ==
    contract(project(net,
                     Elems(get_all_dangling(net, NodeAt(net, i)))
                         \cup Elems(get_all_dangling(net, NodeAt(net, j))),
                     dim),
             i, j)

\* one entry of the log of calls issued on x
Call(op, i, j, e, dim, pass) ==
    [op |-> op, i |-> i, j |-> j, edge |-> e, m |-> dim, pass |-> pass]

----------------------------------------------------------------------------
(* EfficientGaussianEmb *)

\* __init__: the four arguments are stored as given
EfficientGaussianEmb(eps, delta, m_scalar, is_tn_embedding) ==
    [eps |-> eps, delta |-> delta, m_scalar |-> m_scalar,
     is_tn_embedding |-> is_tn_embedding]

\* calc_m ends in an exception: 1 / delta with delta = 0, int() of the nan that
\* np.log gives for a negative argument, int() of the inf or nan that the
\* division by eps ** 2 = 0 gives
calc_m_raises(self, net) ==
    \/ ~Positive(self.delta)
    \/ self.eps.num = 0

\* calc_m with line 36 returning m instead of max(m, 1)
calc_m_unclamped(self, net) ==
    LET n_e == Cardinality(get_edges_to_sketch(net))
        numer == n_e * NpLogInv(self.delta) * self.eps.den * self.eps.den
                     * self.m_scalar
        denom == LnScale * self.eps.num * self.eps.num
    IN  IntTrunc(numer, denom)

\* calc_m: max(int(len(edges) * np.log(1 / delta) / eps ** 2 * m_scalar), 1)
calc_m(self, net) ==
    LET n_e == Cardinality(get_edges_to_sketch(net))
        numer == n_e * NpLogInv(self.delta) * self.eps.den * self.eps.den
                     * self.m_scalar
        denom == LnScale * self.eps.num * self.eps.num
        m_int == IntTrunc(numer, denom)
    IN  Max(m_int, 1)

\* the loop body without the final else of line 86
partition_step_no_else(net, acc, contraction) ==
    LET u_i_dangling == get_all_dangling(net, NodeAt(net, contraction[1]))
        v_i_dangling == get_all_dangling(net, NodeAt(net, contraction[2]))
    IN  IF Len(u_i_dangling) > 0 /\ Len(v_i_dangling) > 0
        THEN [acc EXCEPT !.S = Append(@, contraction),
                         !.I_S = Append(@, contraction)]
        ELSE IF Len(u_i_dangling) = 1
        THEN [acc EXCEPT !.D[u_i_dangling[1]] = Append(@, contraction)]
        ELSE IF Len(v_i_dangling) = 1
        THEN [acc EXCEPT !.D[v_i_dangling[1]] = Append(@, contraction)]
        ELSE acc

\* the loop body with lines 82 and 84 testing for one dimension or more
partition_step_any(net, acc, contraction) ==
    LET u_i_dangling == get_all_dangling(net, NodeAt(net, contraction[1]))
        v_i_dangling == get_all_dangling(net, NodeAt(net, contraction[2]))
    IN  IF Len(u_i_dangling) > 0 /\ Len(v_i_dangling) > 0
        THEN [acc EXCEPT !.S = Append(@, contraction),
                         !.I_S = Append(@, contraction)]
        ELSE IF Len(u_i_dangling) >= 1
        THEN [acc EXCEPT !.D[u_i_dangling[1]] = Append(@, contraction)]
        ELSE IF Len(v_i_dangling) >= 1
        THEN [acc EXCEPT !.D[v_i_dangling[1]] = Append(@, contraction)]
        ELSE [acc EXCEPT !.I_S = Append(@, contraction)]

\* one iteration of the loop of _partition_contractions (lines 69-87)
partition_step(net, acc, contraction) ==
    LET u_i == NodeAt(net, contraction[1])
        v_i == NodeAt(net, contraction[2])
        u_i_dangling == get_all_dangling(net, u_i)
        v_i_dangling == get_all_dangling(net, v_i)
        u_i_dims_to_sketch == Len(u_i_dangling)
        v_i_dims_to_sketch == Len(v_i_dangling)
    IN  IF u_i_dims_to_sketch > 0 /\ v_i_dims_to_sketch > 0
        THEN [acc EXCEPT !.S = Append(@, contraction),
                         !.I_S = Append(@, contraction)]
        ELSE IF u_i_dims_to_sketch = 1
        THEN [acc EXCEPT !.D[u_i_dangling[1]] = Append(@, contraction)]
        ELSE IF v_i_dims_to_sketch = 1
        THEN [acc EXCEPT !.D[v_i_dangling[1]] = Append(@, contraction)]
        ELSE [acc EXCEPT !.I_S = Append(@, contraction)]

RECURSIVE partition_loop(_, _, _, _)
partition_loop(net, path, k, acc) ==
    IF k > Len(path) THEN acc
    ELSE partition_loop(net, path, k + 1, partition_step(net, acc, path[k]))

\* _partition_contractions
partition_contractions(net, path, edges_to_sketch) ==
    partition_loop(net, path, 1,
                   [D |-> [e \in edges_to_sketch |-> <<>>], S |-> <<>>, I_S |-> <<>>])

\* lines 153-156: the values U_edges[edge] of the edges of U that V has too
contracted_indices(U, V) ==
    { U.shape[k] : k \in { k \in 1..Len(U.edges) : InSeq(U.edges[k], V.edges) } }

\* lines 158-159
new_shape(U, current_shape, V) ==
    LET ci == contracted_indices(U, V)
    IN  SelectSeq(current_shape, LAMBDA dim : dim \notin ci)
            \o SelectSeq(V.shape, LAMBDA dim : dim \notin ci)

RECURSIVE minimize_loop(_, _, _, _)
\* the loop of lines 152-166; i counts from 0 as enumerate does
minimize_loop(U, contraction_order, i, st) ==
    IF i >= Len(contraction_order) THEN st
    ELSE LET shape == new_shape(U, st.current_shape, contraction_order[i + 1])
             new_U_size == Prod(shape)
         IN  minimize_loop(U, contraction_order, i + 1,
                 IF new_U_size < st.min_U_size
                 THEN [current_shape |-> shape, min_U_size |-> new_U_size,
                       min_index |-> i]
                 ELSE [st EXCEPT !.current_shape = shape])

RECURSIVE minimize_loop_le(_, _, _, _)
\* the loop with line 164 comparing by <=
minimize_loop_le(U, contraction_order, i, st) ==
    IF i >= Len(contraction_order) THEN st
    ELSE LET shape == new_shape(U, st.current_shape, contraction_order[i + 1])
             new_U_size == Prod(shape)
         IN  minimize_loop_le(U, contraction_order, i + 1,
                 IF new_U_size <= st.min_U_size
                 THEN [current_shape |-> shape, min_U_size |-> new_U_size,
                       min_index |-> i]
                 ELSE [st EXCEPT !.current_shape = shape])

contraction_path_minimize_U_le(U, contraction_order) ==
    LET st == minimize_loop_le(U, contraction_order, 0,
                  [current_shape |-> U.shape, min_U_size |-> TensorSize(U),
                   min_index |-> -1])
    IN  [min_U_size |-> st.min_U_size, min_index |-> st.min_index]

\* _contraction_path_minimize_U: (min_U_size, min_index)
contraction_path_minimize_U(U, contraction_order) ==
    LET st == minimize_loop(U, contraction_order, 0,
                  [current_shape |-> U.shape, min_U_size |-> TensorSize(U),
                   min_index |-> -1])
    IN  [min_U_size |-> st.min_U_size, min_index |-> st.min_index]

RECURSIVE permutations(_)
RECURSIVE permutations_from(_, _)
\* itertools.permutations(s), in the order itertools yields them
permutations(s) ==
    IF Len(s) = 0 THEN << <<>> >> ELSE permutations_from(s, 1)
permutations_from(s, k) ==
    IF k > Len(s) THEN <<>>
    ELSE LET rest == permutations(Keep(s, {k}, 1))
         IN  [p \in 1..Len(rest) |-> <<s[k]>> \o rest[p]]
                 \o permutations_from(s, k + 1)

\* np.argmin: the first position of the least value (positions from 1 here)
argmin(sizes) ==
    CHOOSE k \in 1..Len(sizes) :
        /\ \A l \in 1..Len(sizes) : sizes[k] <= sizes[l]
        /\ \A l \in 1..(k - 1) : sizes[l] > sizes[k]

\* line 121 with the two operands taken the other way round
j_nodes_of_swapped(D_e_i, i) ==
    [k \in 1..Len(D_e_i) |-> IF D_e_i[k][2] = i THEN D_e_i[k][2] ELSE D_e_i[k][1]]

\* line 121
j_nodes_of(D_e_i, i) ==
    [k \in 1..Len(D_e_i) |-> IF D_e_i[k][2] = i THEN D_e_i[k][1] ELSE D_e_i[k][2]]

\* list.insert(pos, v), pos counted from 0
list_insert(s, pos, v) ==
    SubSeq(s, 1, pos) \o <<v>> \o SubSeq(s, pos + 1, Len(s))

\* _calculate_contraction_path_shapes
calculate_contraction_path_shapes(net, D_e_i, i) ==
    LET u == NodeAt(net, i)
        contractions_permutations == permutations(j_nodes_of(D_e_i, i))
        results == [p \in 1..Len(contractions_permutations) |->
            contraction_path_minimize_U(u,
                [k \in 1..Len(contractions_permutations[p]) |->
                    NodeAt(net, contractions_permutations[p][k])])]
        u_possible_sizes == [p \in 1..Len(results) |-> results[p].min_U_size]
        chosen_path_index == argmin(u_possible_sizes)
        sketch_index == results[chosen_path_index].min_index
        chosen_path == list_insert(contractions_permutations[chosen_path_index],
                                   sketch_index + 1, None)
    IN  [k \in 1..Len(chosen_path) |-> <<i, chosen_path[k]>>]

RECURSIVE run_plan(_, _, _, _, _)
\* lines 104-108: the calls of one plan, issued in order
run_plan(st, minimal_contraction_path, k, e, dim) ==
    IF k > Len(minimal_contraction_path) THEN st
    ELSE LET i == minimal_contraction_path[k][1]
             j == minimal_contraction_path[k][2]
         IN  run_plan(
                 IF j = None
                 THEN [net |-> sketch(st.net, e, dim),
                       ops |-> Append(st.ops, Call("sketch", None, None, e, dim, "kronecker"))]
                 ELSE [net |-> contract(st.net, i, j),
                       ops |-> Append(st.ops, Call("contract", i, j, NoEdge, 0, "kronecker"))],
                 minimal_contraction_path, k + 1, e, dim)

----------------------------------------------------------------------------
(* The networks the model starts from. *)

Dims == {2, 3}

RECURSIVE SumTo(_, _)
SumTo(f, n) == IF n < 0 THEN 0 ELSE f[n] + SumTo(f, n - 1)

\* A ring of NumNodes nodes; node i carries dang[i] dangling edges to sketch.
RingIds == 0..(NumNodes - 1)
RingEdge(k) == <<"in", k, (k + 1) % NumNodes>>
RingDim(k) == 2 + (k % 2)
DanglingDim(i, k) == 2 + ((i + k) % 2)
RingNode(i, n_dangling) ==
    Node(<<RingEdge((i + NumNodes - 1) % NumNodes), RingEdge(i)>>
             \o [k \in 1..n_dangling |-> <<"d", i, k>>],
         <<RingDim((i + NumNodes - 1) % NumNodes), RingDim(i)>>
             \o [k \in 1..n_dangling |-> DanglingDim(i, k)])
RingSketchEdges(dang) ==
    { <<"d", i, k>> : i \in RingIds, k \in 1..MaxSketchEdges }
        \cap UNION { Elems(RingNode(i, dang[i]).edges) : i \in RingIds }
RingNetwork(dang) ==
    [nodes |-> [i \in RingIds |-> RingNode(i, dang[i])],
     owner |-> [i \in RingIds |-> i],
     to_sketch |-> RingSketchEdges(dang),
     times_sketched |-> [e \in RingSketchEdges(dang) |-> 0]]
RingDanglings ==
    { dang \in [RingIds -> 0..MaxSketchEdges] : SumTo(dang, NumNodes - 1) <= MaxSketchEdges }
\* the path contracts neighbours of the ring, in either operand order
RingPairs ==
    { <<i, j>> \in RingIds \X RingIds :
        i # j /\ (j = (i + 1) % NumNodes \/ i = (j + 1) % NumNodes) }
RingPaths == UNION { [1..n -> RingPairs] : n \in 0..MaxPathLen }

\* A star: the anchor 0 carries one dangling edge to sketch (last) and one
\* edge to each partner 1..n; partner k carries that edge and free[k] > 0
\* adds a free dimension of that size.
StarNode0(n, in_dim, e_dim) ==
    Node([k \in 1..n |-> <<"in", 0, k>>] \o << <<"d", 0, 1>> >>,
         [k \in 1..n |-> in_dim[k]] \o <<e_dim>>)
StarPartner(k, in_dim, free) ==
    IF free[k] = 0
    THEN Node(<< <<"in", 0, k>> >>, <<in_dim[k]>>)
    ELSE Node(<< <<"in", 0, k>>, <<"free", k, 1>> >>, <<in_dim[k], free[k]>>)
StarNetwork(n, in_dim, free, e_dim) ==
    [nodes |-> [i \in 0..n |-> IF i = 0 THEN StarNode0(n, in_dim, e_dim)
                                ELSE StarPartner(i, in_dim, free)],
     owner |-> [i \in 0..n |-> i],
     to_sketch |-> { <<"d", 0, 1>> },
     times_sketched |-> [e \in { <<"d", 0, 1>> } |-> 0]]
\* the anchor is the first operand of the odd entries, the second of the even
StarPath(n) == [k \in 1..n |-> IF k % 2 = 1 THEN <<0, k>> ELSE <<k, 0>>]

\* A single node with n dangling edges to sketch (calc_m reads their number).
LoneNetwork(n) ==
    [nodes |-> [i \in {0} |-> Node([k \in 1..n |-> <<"d", 0, k>>],
                                   [k \in 1..n |-> DanglingDim(0, k)])],
     owner |-> [i \in {0} |-> 0],
     to_sketch |-> { <<"d", 0, k>> : k \in 1..n },
     times_sketched |-> [e \in { <<"d", 0, k>> : k \in 1..n } |-> 0]]

NoSim == [none |-> TRUE]
DefaultEmb(flag) == EfficientGaussianEmb(Rat(1, 2), Rat(1, 4), 1, flag)

InitRest ==
    /\ edges_to_be_sketched = {}
    /\ m = 0
    /\ D = <<>> /\ S = <<>> /\ I_S = <<>>
    /\ pending = {}
    /\ current = NoEdge
    /\ plan = <<>>
    /\ sim = NoSim
    /\ tree_pos = 0
    /\ ops = <<>>

\* an embedder built with valid parameters, about to embed a ring network
InitRing ==
    /\ pc = "constructed"
    /\ \E flag \in BOOLEAN : emb = DefaultEmb(flag)
    /\ \E dang \in RingDanglings : x = RingNetwork(dang)
    /\ contraction_path \in RingPaths
    /\ InitRest

\* an embedder built with valid parameters, about to embed a star network
InitStar ==
    /\ pc = "constructed"
    /\ emb = DefaultEmb(FALSE)
    /\ \E n \in 1..MaxGroup :
         /\ \E in_dim \in [1..n -> Dims], free \in [1..n -> {0} \cup Dims], e_dim \in Dims :
               x = StarNetwork(n, in_dim, free, e_dim)
         /\ contraction_path = StarPath(n)
    /\ InitRest

Init == InitRing \/ InitStar

\* nothing built yet; the network only matters through its edges to sketch
InitM ==
    /\ pc = "new"
    /\ emb = NoEmb
    /\ \E n \in 0..MaxNE : x = LoneNetwork(n)
    /\ contraction_path = <<>>
    /\ InitRest

----------------------------------------------------------------------------
(* Actions *)

\* EfficientGaussianEmb(eps, delta, m_scalar, is_tn_embedding)
Construct(eps, delta, m_scalar, flag) ==
    /\ pc = "new"
    /\ emb' = EfficientGaussianEmb(eps, delta, m_scalar, flag)
    /\ pc' = "constructed"
    /\ UNCHANGED <<x, contraction_path, edges_to_be_sketched, m, D, S, I_S,
                   pending, current, plan, sim, tree_pos, ops>>

\* embedder.calc_m(x)
CalcM ==
    /\ pc = "constructed"
    /\ IF calc_m_raises(emb, x)
       THEN pc' = "error" /\ m' = m
       ELSE pc' = "m_done" /\ m' = calc_m(emb, x)
    /\ UNCHANGED <<emb, x, contraction_path, edges_to_be_sketched, D, S, I_S,
                   pending, current, plan, sim, tree_pos, ops>>

\* embed, lines 46-49: the edges to sketch, m and the partition
EmbedStart ==
    /\ pc = "constructed"
    /\ ~calc_m_raises(emb, x)
    /\ edges_to_be_sketched' = get_edges_to_sketch(x)
    /\ m' = calc_m(emb, x)
    /\ LET r == partition_contractions(x, contraction_path, get_edges_to_sketch(x))
       IN  /\ D' = r.D
           /\ S' = r.S
           /\ I_S' = r.I_S
           /\ pending' = DOMAIN r.D
    /\ pc' = "embedding"
    /\ UNCHANGED <<emb, x, contraction_path, current, plan, sim, tree_pos, ops>>

\* one iteration of the loop of _contract_and_sketch_kronecker_product (lines
\* 98-108); D.items() yields the keys in the order the set of edges had
KroneckerIteration(e) ==
    /\ pc = "embedding"
    /\ e \in pending
    /\ pending' = pending \ {e}
    /\ current' = e
    /\ IF Len(D[e]) = 0
       THEN /\ x' = sketch(x, e, m)
            /\ ops' = Append(ops, Call("sketch", None, None, e, m, "kronecker"))
            /\ plan' = <<>>
            /\ sim' = NoSim
       ELSE LET e_i_hat_node_index == get_node_index(x, e)
                minimal_contraction_path ==
                    calculate_contraction_path_shapes(x, D[e], e_i_hat_node_index)
                st == run_plan([net |-> x, ops |-> ops], minimal_contraction_path, 1, e, m)
            IN  /\ x' = st.net
                /\ ops' = st.ops
                /\ plan' = minimal_contraction_path
                /\ sim' = [net |-> x, D_e_i |-> D[e], i |-> e_i_hat_node_index]
    /\ UNCHANGED <<pc, emb, contraction_path, edges_to_be_sketched, m, D, S, I_S, tree_pos>>

\* the tree pass with line 183 never taking the branch of line 184
TreeIteration_tree_only ==
    /\ pc = "embedding"
    /\ pending = {}
    /\ tree_pos < Len(I_S)
    /\ LET i == I_S[tree_pos + 1][1]
           j == I_S[tree_pos + 1][2]
       IN  IF InSeq(<<i, j>>, S)
           THEN /\ x' = sketch_and_contract(x, i, j, m)
                /\ ops' = Append(ops, Call("tree_sketch_and_contract", i, j, NoEdge, m, "tree"))
           ELSE /\ x' = contract(x, i, j)
                /\ ops' = Append(ops, Call("contract", i, j, NoEdge, 0, "tree"))
    /\ tree_pos' = tree_pos + 1
    /\ UNCHANGED <<pc, emb, contraction_path, edges_to_be_sketched, m, D, S, I_S,
                   pending, current, plan, sim>>

\* one iteration of the loop of _contract_and_sketch_tree_embedding (lines 181-188)
TreeIteration ==
    /\ pc = "embedding"
    /\ pending = {}
    /\ tree_pos < Len(I_S)
    /\ LET i == I_S[tree_pos + 1][1]
           j == I_S[tree_pos + 1][2]
       IN  IF InSeq(<<i, j>>, S)
           THEN /\ x' = sketch_and_contract(x, i, j, m)
                /\ ops' = Append(ops,
                       Call(IF emb.is_tn_embedding THEN "tn_sketch_and_contract_s"
                            ELSE "tree_sketch_and_contract", i, j, NoEdge, m, "tree"))
           ELSE /\ x' = contract(x, i, j)
                /\ ops' = Append(ops, Call("contract", i, j, NoEdge, 0, "tree"))
    /\ tree_pos' = tree_pos + 1
    /\ UNCHANGED <<pc, emb, contraction_path, edges_to_be_sketched, m, D, S, I_S,
                   pending, current, plan, sim>>

\* embed, line 52
EmbedReturn ==
    /\ pc = "embedding"
    /\ pending = {}
    /\ tree_pos = Len(I_S)
    /\ pc' = "done"
    /\ UNCHANGED <<emb, x, contraction_path, edges_to_be_sketched, m, D, S, I_S,
                   pending, current, plan, sim, tree_pos, ops>>

Next ==
    \/ EmbedStart
    \/ \E e \in pending : KroneckerIteration(e)
    \/ TreeIteration
    \/ EmbedReturn

Spec == Init /\ [][Next]_vars

NextM ==
    \/ \E eps \in Epss, delta \in Deltas, m_scalar \in Scalars, flag \in BOOLEAN :
          Construct(eps, delta, m_scalar, flag)
    \/ CalcM

SpecM == InitM /\ [][NextM]_vars

----------------------------------------------------------------------------
(* Properties *)

Partitioned == pc \in {"embedding", "done"}
\* x is still the network the partition read: no call has been issued on it
Untouched == pc = "embedding" /\ ops = <<>>

\* the number of sketches the network has applied to the edge e, by x.sketch
\* or by a joint sketch-and-contract of the node that carries it
SketchCount(e) == x.times_sketched[e]

\* C1: when embed has returned, every edge that was in get_edges_to_sketch()
\* at the start has been sketched exactly once over the two passes.
C1_SketchedExactlyOnce ==
    pc = "done" => \A e \in edges_to_be_sketched : SketchCount(e) = 1

Holders(c) == { e \in DOMAIN D : InSeq(c, D[e]) }

\* C2: every entry of the path is in exactly one of the buckets D[e] and I_S,
\* as often as it is in the path, and the buckets hold nothing else.
C2_PartitionExact ==
    Partitioned =>
        /\ \A c \in Elems(contraction_path) :
              /\ Cardinality(Holders(c)) + (IF InSeq(c, I_S) THEN 1 ELSE 0) = 1
              /\ \A e \in Holders(c) : SeqCount(D[e], c) = SeqCount(contraction_path, c)
              /\ InSeq(c, I_S) => SeqCount(I_S, c) = SeqCount(contraction_path, c)
        /\ \A e \in DOMAIN D : Elems(D[e]) \subseteq Elems(contraction_path)
        /\ Elems(I_S) \subseteq Elems(contraction_path)

\* the partition met an entry whose one operand has more than one dangling
\* dimension to sketch and whose other operand has none, next to another entry
C2_Witness ==
    /\ Untouched
    /\ Len(contraction_path) > 1
    /\ \E c \in Elems(contraction_path) :
          /\ Len(get_all_dangling(x, NodeAt(x, c[1]))) > 1
          /\ Len(get_all_dangling(x, NodeAt(x, c[2]))) = 0
          /\ InSeq(c, I_S)

\* C3: for every contraction in D[e], one operand carries exactly one dangling
\* dimension to sketch, which is e, and the other operand carries none.
C3_BucketsSingleCarrier ==
    Untouched =>
        \A e \in DOMAIN D : \A c \in Elems(D[e]) :
            LET du == get_all_dangling(x, NodeAt(x, c[1]))
                dv == get_all_dangling(x, NodeAt(x, c[2]))
            IN  \/ du = <<e>> /\ dv = <<>>
                \/ du = <<>> /\ dv = <<e>>

\* D holds a contraction whose first operand carries the edge and one whose
\* second operand does
C3_Witness ==
    /\ Untouched
    /\ \E e \in DOMAIN D : \E c \in Elems(D[e]) :
          get_all_dangling(x, NodeAt(x, c[1])) = <<e>>
    /\ \E e \in DOMAIN D : \E c \in Elems(D[e]) :
          get_all_dangling(x, NodeAt(x, c[2])) = <<e>>

FuseOps == SelectSeq(ops, LAMBDA o : o.op # "sketch")
SamePair(a, b, c) == {a, b} = {c[1], c[2]}

\* C6: when embed has returned, the network has been asked for as many fuse
\* operations (contract or joint sketch-and-contract) as the path has entries,
\* and for every pair of nodes as many as the path has entries on that pair.
C6_PathConsumedOnce ==
    pc = "done" =>
        /\ Len(FuseOps) = Len(contraction_path)
        /\ \A k \in 1..Len(FuseOps) :
              \E c \in Elems(contraction_path) : SamePair(FuseOps[k].i, FuseOps[k].j, c)
        /\ \A c \in Elems(contraction_path) :
              Cardinality({ k \in 1..Len(FuseOps) : SamePair(FuseOps[k].i, FuseOps[k].j, c) })
                = Cardinality({ k \in 1..Len(contraction_path) :
                                  SamePair(c[1], c[2], contraction_path[k]) })

\* embed returned after both passes fused nodes, the Kronecker pass on an entry
\* whose second operand is the anchor
C6_Witness ==
    /\ pc = "done"
    /\ \E k \in 1..Len(ops) : ops[k].op = "contract" /\ ops[k].pass = "kronecker"
    /\ \E k \in 1..Len(ops) : ops[k].op # "sketch" /\ ops[k].pass = "tree"
    /\ \E e \in DOMAIN D : \E c \in Elems(D[e]) : c[2] = get_node_index(x, e)

TreeOps == SelectSeq(ops, LAMBDA o : o.pass = "tree")

\* the call the tree pass owes an entry of I_S
TreeCallFor(c) ==
    IF InSeq(c, S)
    THEN Call(IF emb.is_tn_embedding THEN "tn_sketch_and_contract_s"
              ELSE "tree_sketch_and_contract", c[1], c[2], NoEdge, m, "tree")
    ELSE Call("contract", c[1], c[2], NoEdge, 0, "tree")

\* C9: the calls of the tree pass are, in order, one per entry of I_S done so
\* far (the joint operation the flag selects, with m, for an entry of S, a
\* plain contract otherwise); I_S keeps the order of the path; and no call of
\* the Kronecker pass follows a call of the tree pass.
C9_TreePassInOrder ==
    Partitioned =>
        /\ TreeOps = [k \in 1..tree_pos |-> TreeCallFor(I_S[k])]
        /\ I_S = SelectSeq(contraction_path, LAMBDA c : InSeq(c, I_S))
        /\ pc = "done" => tree_pos = Len(I_S)
        /\ \A a, b \in 1..Len(ops) :
              (a < b /\ ops[a].pass = "tree") => ops[b].pass = "tree"

\* embed returned, with the flag set, after a tree pass over two entries or
\* more, one of them in S, that followed calls of the Kronecker pass
C9_Witness ==
    /\ pc = "done"
    /\ emb.is_tn_embedding
    /\ Len(I_S) > 1
    /\ \E k \in 1..Len(ops) : ops[k].op = "tn_sketch_and_contract_s"
    /\ \E k \in 1..Len(ops) : ops[k].pass = "kronecker"

----------------------------------------------------------------------------
(* Properties of the plan of one group D[e].  sim holds what                *)
(* _calculate_contraction_path_shapes was given; plan holds what it         *)
(* returned.                                                                *)

Planned == sim # NoSim
AnchorU == NodeAt(sim.net, sim.i)
PartnerOf(c, i) == IF c[1] = i THEN c[2] ELSE c[1]
GroupPartners == [k \in 1..Len(sim.D_e_i) |-> PartnerOf(sim.D_e_i[k], sim.i)]
PlanPartners ==
    LET steps == SelectSeq(plan, LAMBDA st : st[2] # None)
    IN  [k \in 1..Len(steps) |-> steps[k][2]]
SketchSteps == { k \in 1..Len(plan) : plan[k][2] = None }
NodesOf(order) == [k \in 1..Len(order) |-> NodeAt(sim.net, order[k])]
SeqMin(s, least) == IF \E k \in 1..Len(s) : s[k] < least
                    THEN CHOOSE v \in Elems(s) : \A k \in 1..Len(s) : v <= s[k]
                    ELSE least

RECURSIVE SimulatedShapes(_, _, _, _)
\* the shapes the simulation of _contraction_path_minimize_U passes through
SimulatedShapes(U, nodes, k, current_shape) ==
    IF k > Len(nodes) THEN <<>>
    ELSE LET shape == new_shape(U, current_shape, nodes[k])
         IN  <<shape>> \o SimulatedShapes(U, nodes, k + 1, shape)

SimulatedSizes(order) ==
    LET shapes == SimulatedShapes(AnchorU, NodesOf(order), 1, AnchorU.shape)
    IN  [k \in 1..Len(shapes) |-> Prod(shapes[k])]

\* the cost model by edge identity: contracting with V removes the dimensions
\* of the edges U shares with V and appends V's other dimensions
SharedStep(cur, U, V) ==
    LET shared == Elems(U.edges) \cap Elems(V.edges)
    IN  Node(Keep(cur.edges, Positions(cur, shared), 1)
                 \o Keep(V.edges, Positions(V, shared), 1),
             Keep(cur.shape, Positions(cur, shared), 1)
                 \o Keep(V.shape, Positions(V, shared), 1))

RECURSIVE SharedShapes(_, _, _, _)
SharedShapes(U, nodes, k, cur) ==
    IF k > Len(nodes) THEN <<>>
    ELSE LET nxt == SharedStep(cur, U, nodes[k])
         IN  <<nxt.shape>> \o SharedShapes(U, nodes, k + 1, nxt)

SharedSizes(order) ==
    LET shapes == SharedShapes(AnchorU, NodesOf(order), 1, AnchorU)
    IN  [k \in 1..Len(shapes) |-> Prod(shapes[k])]

\* the anchor size of an ordering: the least size the anchor reaches along it
AnchorSize(order) == SeqMin(SharedSizes(order), TensorSize(AnchorU))

PartnerOrders ==
    LET perms == permutations(GroupPartners)
    IN  { perms[p] : p \in 1..Len(perms) }

\* C4: the ordering the plan follows reaches an anchor size, measured by edge
\* identity, no larger than that of any other ordering of the group.
C4_ChosenOrderOptimal ==
    Planned => \A order \in PartnerOrders : AnchorSize(PlanPartners) <= AnchorSize(order)

\* C5: the plan of a non-empty group holds every partner of the group once and
\* one sketch step; the sketch step comes right after the contraction step at
\* which the simulated size first reaches its least value, and it comes first
\* exactly when no contraction step brings the simulated size below the
\* anchor's initial size.
C5_PlanShape ==
    Planned =>
        /\ Cardinality(SketchSteps) = 1
        /\ Len(PlanPartners) = Len(GroupPartners)
        /\ \A j \in Elems(GroupPartners) :
              SeqCount(PlanPartners, j) = SeqCount(GroupPartners, j)
        /\ \A k \in 1..Len(plan) : plan[k][1] = sim.i
        /\ LET t == (CHOOSE k \in SketchSteps : TRUE) - 1
               sizes == SimulatedSizes(PlanPartners)
           IN  /\ (t = 0) <=> (\A k \in 1..Len(sizes) : sizes[k] >= TensorSize(AnchorU))
               /\ t > 0 => /\ \A k \in 1..Len(sizes) : sizes[k] >= sizes[t]
                           /\ \A k \in 1..(t - 1) : sizes[k] > sizes[t]

\* a plan of three steps or more whose sketch step is neither first nor last
C5_Witness ==
    /\ Planned
    /\ Len(plan) > 2
    /\ \E k \in SketchSteps : 1 < k /\ k < Len(plan)

\* a plan of two steps or more whose sketch step is first
C5_WitnessFirst ==
    /\ Planned
    /\ Len(plan) > 1
    /\ 1 \in SketchSteps

\* C10: along every ordering of a group's partners, the shape the simulation
\* reaches at each step is the shape by edge identity.
C10_SharedByIdentity ==
    Planned =>
        \A order \in PartnerOrders :
            SimulatedShapes(AnchorU, NodesOf(order), 1, AnchorU.shape)
                = SharedShapes(AnchorU, NodesOf(order), 1, AnchorU)

----------------------------------------------------------------------------
(* Properties of calc_m and of construction *)

ValidParameters(self) ==
    /\ Positive(self.eps)
    /\ Positive(self.delta)
    /\ LessThan(self.delta, Rat(1, 1))

N_E == Cardinality(get_edges_to_sketch(x))

\* max(1, floor(m_scalar * N_E * ln(1 / delta) / eps ^ 2))
SpecM_Value(self) ==
    Max(1, Floor(self.m_scalar * N_E * NpLogInv(self.delta) * self.eps.den * self.eps.den,
                 LnScale * self.eps.num * self.eps.num))

\* C7: with valid eps and delta, calc_m returns max(1, floor(m_scalar * N_E *
\* ln(1 / delta) / eps ^ 2)), an integer of at least 1, and a larger eps or a
\* larger delta (the rest unchanged) never gives a larger result.
C7_CalcM ==
    (pc = "m_done" /\ ValidParameters(emb)) =>
        /\ m = SpecM_Value(emb)
        /\ m \in Int /\ m >= 1
        /\ \A eps2 \in ValidEpss :
              LessEq(emb.eps, eps2) => calc_m([emb EXCEPT !.eps = eps2], x) <= m
        /\ \A delta2 \in ValidDeltas :
              LessEq(emb.delta, delta2) => calc_m([emb EXCEPT !.delta = delta2], x) <= m

\* calc_m returned more than 1 for valid parameters that are not the largest
C7_Witness ==
    /\ pc = "m_done"
    /\ ValidParameters(emb)
    /\ m > 1
    /\ \E eps2 \in ValidEpss : LessThan(emb.eps, eps2)
    /\ \E delta2 \in ValidDeltas : LessThan(emb.delta, delta2)

\* calc_m returned 1 where the formula is below 1
C7_WitnessClamped ==
    /\ pc = "m_done"
    /\ ValidParameters(emb)
    /\ N_E > 0
    /\ emb.m_scalar # 0
    /\ m = 1

\* C8: no embedder object holds eps <= 0 or a delta outside (0, 1).
C8_InvalidRejected ==
    emb # NoEmb => ValidParameters(emb)

====
